---- MODULE Spec2Model ----
(***************************************************************************)
(* A model of the sliver crate: the fixed-point representation BaseRepr<O> *)
(* (src/src/repr.rs), the sine evaluator (src/src/trig.rs) and the Angle   *)
(* facade (src/src/angle.rs).                                              *)
(*                                                                         *)
(* TLC's integers are 32 bits wide, so a u64, a u128 and the bit pattern   *)
(* of an f64 are tuples of base-256 digits, least significant digit first: *)
(* digit i has weight 256^(i-1).  A u64 and an f64 have 8 digits, a u128   *)
(* has 16.  Small quantities (a table index, a shift distance, a float's   *)
(* exponent field) are plain integers.                                     *)
(***************************************************************************)
EXTENDS Integers, Sequences, FiniteSets, TLC

(***************************************************************************)
(* Bounds of the checked inputs.                                           *)
(***************************************************************************)
\* A checked u64 pattern is PrefixLen free leading bits, a run of one
\* repeated bit, and SuffixLen free trailing bits.
PrefixLen == 4
SuffixLen == 2
\* A checked f64 mantissa field is built the same way.
MantPrefixLen == 2
MantSuffixLen == 0
\* The checked exponents lie within NearExp of 2^0 and within EdgeExp of the
\* exponents whose shift distance is -64 or 64, plus the least and the
\* greatest normal exponent and the two reserved exponent fields.
NearExp == 2
EdgeExp == 2
\* A checked table entry has TablePrefixLen free leading bits followed by one
\* repeated bit.
TablePrefixLen == 0

(***************************************************************************)
(* Multi-digit arithmetic.                                                 *)
(***************************************************************************)
Base == 2^8

\* Digit i of x, 0 beyond its width.
Dig(x, i) == IF i >= 1 /\ i <= Len(x) THEN x[i] ELSE 0

\* The bit of weight 2^k of x (0 beyond its width).
BitAt(x, k) ==
    IF k < 0 THEN 0 ELSE (Dig(x, (k \div 8) + 1) \div (2^(k % 8))) % 2

\* The u64 and the u128 whose digit i is d(i).
Word(d(_)) == << d(1), d(2), d(3), d(4), d(5), d(6), d(7), d(8) >>
Wide(d(_)) ==
    << d(1), d(2),  d(3),  d(4),  d(5),  d(6),  d(7),  d(8),
       d(9), d(10), d(11), d(12), d(13), d(14), d(15), d(16) >>

ZeroWord == <<0, 0, 0, 0, 0, 0, 0, 0>>
MaxWord == <<255, 255, 255, 255, 255, 255, 255, 255>>

\* The low 64 bits and the bits above them of a u128.
Low64(w) == SubSeq(w, 1, 8)
High64(w) == SubSeq(w, 9, 16)

\* Digit i of x * 2^n and of floor(x / 2^n), for n >= 0.
ShlDigit(x, n, i) ==
    LET q == n \div 8
        r == n % 8
    IN  ((Dig(x, i - q) * 2^r) % Base) + (Dig(x, i - q - 1) \div 2^(8 - r))
ShrDigit(x, n, i) ==
    LET q == n \div 8
        r == n % 8
    IN  (Dig(x, i + q) \div 2^r) + ((Dig(x, i + q + 1) % 2^r) * 2^(8 - r))

\* Digit i of x modulo 2^n.
MaskDigit(x, n, i) ==
    IF 8 * i <= n THEN Dig(x, i)
    ELSE IF 8 * (i - 1) >= n THEN 0
    ELSE Dig(x, i) % 2^(n - 8 * (i - 1))

\* On a u64: x * 2^n modulo 2^64, floor(x / 2^n), x modulo 2^n.
Shl(x, n) == Word(LAMBDA i : ShlDigit(x, n, i))
Shr(x, n) == Word(LAMBDA i : ShrDigit(x, n, i))
Mask(x, n) == Word(LAMBDA i : MaskDigit(x, n, i))

\* w >> n for a u128.
WideShr(w, n) == Wide(LAMBDA i : ShrDigit(w, n, i))

\* The value of a u64 below 2^24 as an integer.
ToInt(x) == x[1] + Base * x[2] + Base * Base * x[3]

\* A natural number below 2^24 as a u64.
FromInt(n) ==
    << n % Base, (n \div Base) % Base, (n \div (Base * Base)) % Base,
       0, 0, 0, 0, 0 >>

RECURSIVE Sigma(_, _, _)
Sigma(f(_), lo, hi) == IF lo > hi THEN 0 ELSE f(lo) + Sigma(f, lo + 1, hi)

\* a + b digit by digit from digit i with carry c: the digits of the sum
\* followed by the carry out.
RECURSIVE AddDigits(_, _, _, _)
AddDigits(a, b, i, c) ==
    IF i > Len(a) THEN <<c>>
    ELSE LET s == a[i] + b[i] + c
         IN  <<s % Base>> \o AddDigits(a, b, i + 1, s \div Base)

\* a - b digit by digit from digit i with borrow c: the digits of the
\* difference modulo 2^width followed by the borrow out.
RECURSIVE SubDigits(_, _, _, _)
SubDigits(a, b, i, c) ==
    IF i > Len(a) THEN <<c>>
    ELSE LET d == a[i] - b[i] - c
         IN  <<d % Base>> \o SubDigits(a, b, i + 1, IF d < 0 THEN 1 ELSE 0)

\* a < b as numbers of the same width.
Less(a, b) == SubDigits(a, b, 1, 0)[Len(a) + 1] = 1

\* The digits of the column sums col(k), k up to n, from column k with
\* carry c.
RECURSIVE Propagate(_, _, _, _)
Propagate(col(_), k, n, c) ==
    IF k > n THEN <<>>
    ELSE LET s == col(k) + c
         IN  <<s % Base>> \o Propagate(col, k + 1, n, s \div Base)

\* The product of two u64 as 17 digits: the 16 digits of a u128 and what
\* would not fit in them.
MulDigits(a, b) ==
    LET col(k) == Sigma(LAMBDA i : a[i] * b[k + 1 - i],
                        IF k > 8 THEN k - 7 ELSE 1, IF k > 8 THEN 8 ELSE k)
    IN  Propagate(col, 1, 17, 0)

\* (a as u128) * (b as u128) for u64 a and b: the product modulo 2^128, and
\* whether it overflowed the u128.
u128_mul(a, b) ==
    LET p == MulDigits(a, b)
    IN  [ overflow |-> p[17] # 0, value |-> SubSeq(p, 1, 16) ]
WideMul(a, b) == u128_mul(a, b).value

\* The number of bits of a digit: 0 for 0, 8 for 128..255.
DigitBits(d) == Cardinality({ j \in 0..7 : d >= 2^j })

\* The number of bits of a u64: 0 for 0, 64 for 2^63 and above.
RECURSIVE BitLenFrom(_, _)
BitLenFrom(x, i) ==
    IF i = 0 THEN 0
    ELSE IF x[i] # 0 THEN 8 * (i - 1) + DigitBits(x[i])
    ELSE BitLenFrom(x, i - 1)
BitLen(x) == BitLenFrom(x, 8)

(***************************************************************************)
(* u64 primitives of the language, as the two build profiles run them.     *)
(***************************************************************************)
\* The width of a u64 and of an f64 bit pattern.
WordBits == 64

\* u64 << n.  The shift distance overflows when it is not below the width:
\* a build with overflow checks panics, a build without them shifts by the
\* distance modulo the width.
u64_shl(x, n) ==
    [ overflow |-> n >= WordBits, value |-> Shl(x, n % WordBits) ]

\* u64 >> n, with the same overflow rule.
u64_shr(x, n) ==
    [ overflow |-> n >= WordBits, value |-> Shr(x, n % WordBits) ]

\* (x as i64).wrapping_neg() as u64
wrapping_neg(x) == SubSeq(SubDigits(ZeroWord, x, 1, 0), 1, 8)

\* u64::wrapping_add
wrapping_add(a, b) == SubSeq(AddDigits(a, b, 1, 0), 1, 8)

\* u64 - u64: the difference modulo 2^64, and whether it underflowed.
u64_sub(a, b) ==
    LET d == SubDigits(a, b, 1, 0)
    IN  [ overflow |-> d[9] = 1, value |-> SubSeq(d, 1, 8) ]

(***************************************************************************)
(* bitvec views of a u64.                                                  *)
(***************************************************************************)
\* view_bits::<Msb0>()[i]: index 0 is the most significant bit.
Msb0(x, i) == BitAt(x, WordBits - 1 - i)

\* view_bits::<Msb0>()[from..to].load(): the bits of the slice in their
\* natural significance, the slice's last bit the least significant.
Msb0Load(x, from, to) == Mask(Shr(x, WordBits - to), to - from)

\* view_bits::<Lsb0>()[from..to].load(): index 0 is the least significant bit.
Lsb0Load(x, from, to) == Mask(Shr(x, from), to - from)

\* view_bits::<Msb0>().first_one(): the index of the first set bit, -1 for
\* None.
first_one(x) == IF x = ZeroWord THEN -1 ELSE WordBits - BitLen(x)

(***************************************************************************)
(* f64: a float is its IEEE-754 bit pattern.                               *)
(***************************************************************************)
MantissaBits == 52
ExponentBits == 11

raw_exponent(value) == ToInt(Lsb0Load(value, MantissaBits, WordBits - 1))
raw_mantissa(value) == Lsb0Load(value, 0, MantissaBits)
sign_bit(value) == BitAt(value, WordBits - 1)

\* f64::from_bits of the three fields: the mantissa field keeps the low 52
\* bits and the exponent field the low 11 bits of what is stored into it.
FloatOf(sign, exponent, mantissa) ==
    LET e == exponent % (2^ExponentBits)
    IN  << mantissa[1], mantissa[2], mantissa[3], mantissa[4], mantissa[5],
           mantissa[6], (mantissa[7] % 16) + 16 * (e % 16),
           (e \div 16) + 128 * sign >>

\* f64::classify
classify(value) ==
    LET e == raw_exponent(value)
        m == raw_mantissa(value)
    IN  CASE e = 0 /\ m = ZeroWord -> "Zero"
          [] e = 0 /\ m # ZeroWord -> "Subnormal"
          [] e = 2^ExponentBits - 1 /\ m = ZeroWord -> "Infinite"
          [] e = 2^ExponentBits - 1 /\ m # ZeroWord -> "Nan"
          [] OTHER -> "Normal"

\* Unary minus on an f64.
FloatNeg(value) == FloatOf(1 - sign_bit(value), raw_exponent(value), value)

\* f64 ==: equal patterns, or two zeros of either sign; a NaN equals nothing.
FloatEq(a, b) ==
    /\ classify(a) # "Nan"
    /\ classify(b) # "Nan"
    /\ \/ a = b
       \/ classify(a) = "Zero" /\ classify(b) = "Zero"

(***************************************************************************)
(* src/src/sign.rs                                                         *)
(***************************************************************************)
Sign_from_bit(bit) == IF bit = 0 THEN "Positive" ELSE "Negative"

(***************************************************************************)
(* src/src/repr.rs                                                         *)
(***************************************************************************)
FLOAT_ZERO_EXP == 1023

\* What a fallible call returns: Some(bits), None, or the panic of a build
\* with overflow checks.
Some(bits) == [tag |-> "Some", bits |-> bits]
None == [tag |-> "None", bits |-> ZeroWord]
Panic == [tag |-> "Panic", bits |-> ZeroWord]

\* BaseRepr::<O>::new
new(repr) == repr

\* The mantissa field with the omitted leading bit set.
from_float_mantissa(value) ==
    LET mantissa == Lsb0Load(value, 0, MantissaBits)
    IN  << mantissa[1], mantissa[2], mantissa[3], mantissa[4], mantissa[5],
           mantissa[6], mantissa[7] + 16, 0 >>

from_float_shift_distance(O, value) ==
    LET exponent == raw_exponent(value) - FLOAT_ZERO_EXP
    IN  exponent + 12 - O

\* BaseRepr::<O>::from_float, in a build with or without overflow checks.
from_float(O, value, overflow_checks) ==
    LET mantissa == from_float_mantissa(value)
        shift_distance == from_float_shift_distance(O, value)
        shifted == IF shift_distance < 0
                   THEN u64_shr(mantissa, -shift_distance)
                   ELSE u64_shl(mantissa, shift_distance)
        fixed_point_repr == shifted.value
        sign == Sign_from_bit(sign_bit(value))
        sign_adjusted_repr == IF sign = "Positive" THEN fixed_point_repr
                              ELSE wrapping_neg(fixed_point_repr)
    IN  CASE classify(value) = "Zero" -> Some(ZeroWord)
          [] classify(value) \in {"Nan", "Infinite", "Subnormal"} -> None
          [] OTHER -> IF shifted.overflow /\ overflow_checks THEN Panic
                      ELSE Some(sign_adjusted_repr)

\* A product that keeps the low half of the u128 instead of the high one.
mul_unshifted(self, other) == Low64(WideMul(self, other))

\* BaseRepr::<O>::mul
mul(self, other) == Low64(WideShr(WideMul(self, other), WordBits))

\* BaseRepr::<O>::mul0
mul0(O, self, other) == Low64(WideShr(WideMul(self, other), WordBits - O))

\* A sum that wraps instead of clamping.
saturating_add_wrapping(self, rhs) == wrapping_add(self, rhs)

\* BaseRepr::<O>::saturating_add
saturating_add(self, rhs) ==
    LET s == AddDigits(self, rhs, 1, 0)
    IN  IF s[9] = 1 THEN MaxWord ELSE SubSeq(s, 1, 8)

\* An exponent field without the step down for the leading one.
as_float_biased_exponent_no_step(O, self) ==
    FLOAT_ZERO_EXP + (O - first_one(self))

\* The exponent field as_float stores.
as_float_biased_exponent(O, self) ==
    LET one_idx == first_one(self)
        exponent == O - 1 - one_idx
    IN  FLOAT_ZERO_EXP + exponent

\* The slice as_float loads its mantissa from: the bits after the first set
\* bit, cut to 52 when there are more.
as_float_mantissa_len(self) ==
    LET one_idx == first_one(self)
        rest == WordBits - (one_idx + 1)
    IN  IF rest >= MantissaBits THEN MantissaBits ELSE rest

\* BaseRepr::<O>::as_float
as_float(O, self) ==
    LET one_idx == first_one(self)
        len == as_float_mantissa_len(self)
        mantissa == Msb0Load(self, one_idx + 1, one_idx + 1 + len)
        biased_exponent == as_float_biased_exponent(O, self)
    IN  IF one_idx = -1 THEN ZeroWord
        ELSE FloatOf(0, biased_exponent, Lsb0Load(mantissa, 0, MantissaBits))

(***************************************************************************)
(* src/src/consts.rs                                                       *)
(***************************************************************************)
\* TAU: BaseRepr<3>, 0xC90FDAA22168C234.
TAU == <<52, 194, 104, 33, 162, 218, 15, 201>>
TAU_OFFSET == 3

\* DEGREES: BaseRepr<9>, 360 at offset 9, 0xB400000000000000.
DEGREES == <<0, 0, 0, 0, 0, 0, 0, 180>>
DEGREES_OFFSET == 9

(***************************************************************************)
(* The table: 256 samples of the sine over a quarter turn,                 *)
(* CURVE[i] = floor(sin(i/256 * pi/2) * 2^64), index 0 first.              *)
(***************************************************************************)
CURVE ==
    << 
       <<0,0,0,0,0,0,0,0>>, <<17,7,112,230,15,31,146,1>>,
       <<140,240,216,155,63,58,36,3>>, <<77,191,195,248,174,77,182,4>>,
       <<126,159,217,232,125,85,72,6>>, <<63,192,115,116,204,77,218,7>>,
       <<139,230,42,202,186,50,108,9>>, <<180,161,102,72,105,0,254,10>>,
       <<243,9,236,134,248,178,143,12>>, <<103,241,107,96,137,70,33,14>>,
       <<246,111,16,252,60,183,178,15>>, <<128,178,9,215,52,1,68,17>>,
       <<204,245,25,206,146,32,213,18>>, <<173,149,32,39,121,17,102,20>>,
       <<193,24,164,154,10,208,246,21>>, <<87,33,91,93,106,88,135,23>>,
       <<225,43,180,41,188,166,23,25>>, <<121,3,92,73,36,183,167,26>>,
       <<245,212,194,158,199,133,55,28>>, <<18,201,159,174,203,14,199,29>>,
       <<52,14,115,169,86,78,86,31>>, <<70,58,6,117,143,64,229,32>>,
       <<86,237,234,181,157,225,115,34>>, <<109,157,247,216,169,45,2,36>>,
       <<68,116,194,28,221,32,144,37>>, <<115,39,26,155,97,183,29,39>>,
       <<181,179,124,82,98,237,170,40>>, <<243,227,139,47,11,191,55,42>>,
       <<169,140,127,22,137,40,196,43>>, <<124,100,149,236,9,38,80,45>>,
       <<142,98,126,161,188,179,219,46>>, <<115,139,201,56,209,205,102,48>>,
       <<108,21,76,211,120,112,241,49>>, <<203,204,134,184,229,151,123,51>>,
       <<60,161,8,96,75,64,5,53>>, <<221,68,206,122,222,101,142,54>>,
       <<249,197,158,252,212,4,23,56>>, <<72,12,101,37,102,25,159,57>>,
       <<186,34,134,138,202,159,38,59>>, <<163,54,52,32,60,148,173,60>>,
       <<94,53,190,66,246,242,51,62>>, <<105,241,219,191,53,184,185,63>>,
       <<253,183,246,223,56,224,62,65>>, <<78,64,110,111,63,103,195,66>>,
       <<130,221,217,199,138,73,71,68>>, <<145,220,69,217,93,131,202,69>>,
       <<70,247,108,51,253,16,77,71>>, <<153,197,237,14,175,238,206,72>>,
       <<162,22,124,86,187,24,80,74>>, <<138,26,14,176,107,139,208,75>>,
       <<195,70,5,134,11,67,80,77>>, <<243,221,82,16,232,59,207,78>>,
       <<12,5,152,93,80,114,77,80>>, <<254,78,65,92,149,226,202,81>>,
       <<146,168,157,227,9,137,71,83>>, <<5,142,240,188,2,98,195,84>>,
       <<248,115,127,172,214,105,62,86>>, <<99,77,154,122,222,156,184,87>>,
       <<68,24,159,252,116,247,49,89>>, <<199,90,248,29,247,117,170,90>>,
       <<187,122,22,233,195,20,34,92>>, <<43,217,99,144,60,208,152,93>>,
       <<6,156,51,119,196,164,14,95>>, <<205,15,171,58,193,142,131,96>>,
       <<70,139,165,186,154,138,247,97>>, <<70,191,146,34,187,148,106,99>>,
       <<180,92,79,242,142,169,220,100>>, <<234,250,247,6,133,197,77,102>>,
       <<182,40,182,163,14,229,189,103>>, <<65,146,135,122,159,4,45,105>>,
       <<42,38,255,180,173,32,155,106>>, <<80,36,0,253,177,53,8,108>>,
       <<173,0,115,133,39,64,116,109>>, <<207,4,244,18,140,60,223,110>>,
       <<126,154,123,4,96,39,73,112>>, <<65,42,0,92,38,253,177,113>>,
       <<90,120,17,199,100,186,25,115>>, <<27,107,109,167,163,91,128,116>>,
       <<85,37,142,27,110,221,229,117>>, <<195,95,49,7,82,60,74,119>>,
       <<120,236,216,27,224,116,173,120>>, <<66,79,68,225,171,131,15,122>>,
       <<34,86,227,189,75,101,112,123>>, <<6,157,65,255,88,22,208,124>>,
       <<237,231,106,226,111,147,46,126>>, <<214,62,72,156,47,217,139,127>>,
       <<203,182,245,97,58,228,231,128>>, <<114,211,16,113,53,177,66,130>>,
       <<180,108,255,23,201,60,156,131>>, <<3,4,47,190,160,131,244,132>>,
       <<229,116,76,236,106,130,75,134>>, <<137,236,115,84,217,53,161,135>>,
       <<33,20,89,218,160,154,245,136>>, <<243,89,103,155,121,173,72,138>>,
       <<2,69,218,246,30,107,154,139>>, <<102,191,205,149,79,208,234,140>>,
       <<100,67,70,115,205,217,57,142>>, <<119,215,48,228,93,132,135,143>>,
       <<139,197,90,159,201,204,211,144>>, <<197,249,96,197,220,175,30,146>>,
       <<68,245,150,232,102,42,104,147>>, <<86,65,229,20,59,57,176,148>>,
       <<186,79,159,215,47,217,246,149>>, <<156,180,80,71,31,7,60,151>>,
       <<8,167,129,11,231,191,127,152>>, <<168,180,114,100,104,0,194,153>>,
       <<192,149,207,50,136,197,2,155>>, <<95,14,89,255,46,12,66,156>>,
       <<227,201,133,2,73,209,127,157>>, <<251,29,26,44,198,17,188,158>>,
       <<109,162,182,42,154,202,246,159>>, <<246,138,93,115,188,248,47,161>>,
       <<192,176,238,72,40,153,103,162>>, <<229,56,154,195,220,168,157,163>>,
       <<176,197,73,216,220,36,210,164>>, <<73,32,0,96,47,10,5,166>>,
       <<158,72,47,31,223,85,54,167>>, <<105,217,4,205,250,4,102,168>>,
       <<94,174,172,26,149,20,148,169>>, <<138,186,137,186,196,129,192,170>>,
       <<21,253,100,103,164,73,235,171>>, <<175,130,146,235,82,105,20,173>>,
       <<13,98,12,40,243,221,59,174>>, <<222,161,131,27,172,164,97,175>>,
       <<218,246,102,233,168,186,133,176>>, <<137,72,223,224,24,29,168,177>>,
       <<135,235,193,131,47,201,200,178>>, <<46,128,120,141,36,188,231,179>>,
       <<132,100,222,249,51,243,4,181>>, <<146,168,19,12,158,107,32,182>>,
       <<72,116,69,85,167,34,58,183>>, <<38,206,107,187,152,21,82,184>>,
       <<26,178,252,127,191,65,104,185>>, <<2,104,148,70,109,164,124,186>>,
       <<92,9,147,27,248,58,143,187>>, <<234,37,175,122,186,2,160,188>>,
       <<240,118,125,85,19,249,174,189>>, <<22,145,237,25,102,27,188,190>>,
       <<198,132,187,184,26,103,199,191>>, <<68,93,214,171,157,217,208,192>>,
       <<144,110,187,252,95,112,216,193>>, <<139,98,198,74,215,40,222,194>>,
       <<164,245,117,209,125,0,226,195>>, <<182,83,165,110,210,244,227,196>>,
       <<167,5,186,168,88,3,228,197>>, <<142,96,198,180,152,41,226,198>>,
       <<73,103,160,124,31,101,222,199>>, <<98,15,237,164,126,179,216,200>>,
       <<122,218,31,147,76,18,209,201>>, <<83,181,110,115,36,127,199,202>>,
       <<213,13,186,62,166,247,187,203>>, <<119,17,105,192,118,121,174,204>>,
       <<158,5,58,156,63,2,159,205>>, <<139,171,6,84,175,143,141,206>>,
       <<177,161,124,77,121,31,122,207>>, <<62,180,201,215,85,175,100,208>>,
       <<237,14,60,49,2,61,77,209>>, <<54,66,214,140,64,198,51,210>>,
       <<22,14,215,23,216,72,24,211>>, <<208,228,52,255,148,194,250,211>>,
       <<25,24,13,117,72,49,219,212>>, <<81,163,6,182,200,146,185,213>>,
       <<112,133,168,14,241,228,149,214>>, <<139,157,163,224,161,37,112,215>>,
       <<219,252,15,168,192,82,72,216>>, <<90,161,157,0,56,106,30,217>>,
       <<41,140,184,170,247,105,242,217>>, <<16,39,160,144,244,79,196,218>>,
       <<135,236,113,203,40,26,148,219>>, <<213,69,39,168,147,198,97,220>>,
       <<253,146,134,172,57,83,45,221>>, <<55,80,7,156,36,190,246,221>>,
       <<251,76,169,124,99,5,190,222>>, <<144,232,190,155,10,39,131,223>>,
       <<108,72,170,146,51,33,70,224>>, <<150,124,141,75,253,241,6,225>>,
       <<145,134,237,5,140,151,197,225>>, <<81,55,72,91,9,16,130,226>>,
       <<236,216,156,67,164,89,60,227>>, <<217,152,231,25,145,114,244,227>>,
       <<180,167,143,160,9,89,170,228>>, <<136,3,200,5,77,11,94,229>>,
       <<229,225,226,231,159,135,15,230>>, <<6,175,151,89,76,204,190,230>>,
       <<134,151,59,230,161,215,107,231>>, <<50,146,236,149,245,167,22,232>>,
       <<187,223,174,241,161,59,191,232>>, <<15,246,124,7,7,145,101,233>>,
       <<98,205,73,110,138,166,9,234>>, <<254,132,245,73,151,122,171,234>>,
       <<23,86,52,79,158,11,75,235>>, <<0,203,103,199,21,88,232,235>>,
       <<69,49,106,148,121,94,131,236>>, <<79,61,76,52,75,29,28,237>>,
       <<82,214,4,197,17,147,178,237>>, <<107,1,19,8,90,190,70,238>>,
       <<7,227,17,102,182,157,216,238>>, <<166,205,62,242,190,47,104,239>>,
       <<93,85,241,109,17,115,245,239>>, <<126,95,5,76,81,102,128,240>>,
       <<253,37,55,180,39,8,9,241>>, <<67,38,113,134,67,87,143,241>>,
       <<80,243,11,94,89,82,19,242>>, <<32,227,255,148,35,248,148,242>>,
       <<116,143,8,71,98,71,20,243>>, <<66,34,186,84,219,62,145,243>>,
       <<47,102,136,102,90,221,11,244>>, <<155,147,191,239,176,33,132,244>>,
       <<236,210,110,49,182,10,250,244>>, <<218,108,68,61,71,151,109,245>>,
       <<198,161,91,248,70,198,222,245>>, <<25,33,252,29,158,150,77,246>>,
       <<232,25,75,66,59,7,186,246>>, <<73,222,237,212,18,23,36,247>>,
       <<198,18,158,35,31,197,139,247>>, <<144,99,175,92,96,16,241,247>>,
       <<82,185,134,145,220,247,83,248>>, <<108,231,2,185,159,122,180,248>>,
       <<190,205,214,177,187,151,18,249>>, <<42,232,212,68,72,78,110,249>>,
       <<40,70,44,39,99,157,199,249>>, <<224,228,150,252,47,132,30,250>>,
       <<113,102,121,89,216,1,115,250>>, <<31,33,244,196,139,21,197,250>>,
       <<86,129,229,186,127,190,20,251>>, <<133,185,221,173,239,251,97,251>>,
       <<9,187,3,9,29,205,172,251>>, <<117,115,235,49,79,49,245,251>>,
       <<171,73,93,138,211,39,59,252>>, <<115,214,14,114,253,175,126,252>>,
       <<58,212,76,72,38,201,191,252>>, <<242,65,150,109,173,114,254,252>>,
       <<11,181,40,69,248,171,58,253>>, <<197,214,125,54,114,116,116,253>>,
       <<27,9,186,174,140,203,171,253>>, <<212,47,12,34,191,176,224,253>>,
       <<61,154,254,12,135,35,19,254>>, <<98,10,185,245,103,35,67,254>>,
       <<162,214,51,109,235,175,112,254>>, <<165,34,92,16,161,200,155,254>>,
       <<240,44,41,137,30,109,196,254>>, <<84,174,162,143,255,156,234,254>>,
       <<209,72,216,234,229,87,14,255>>, <<100,3,202,113,121,157,47,255>>,
       <<169,208,65,12,104,109,78,255>>, <<25,30,158,179,101,199,106,255>>,
       <<3,106,141,115,44,171,132,255>>, <<106,222,186,106,124,24,156,255>>,
       <<29,239,107,203,27,15,177,255>>, <<139,249,14,220,214,142,195,255>>,
       <<233,228,186,247,127,151,211,255>>, <<122,193,159,142,239,40,225,255>>,
       <<217,101,104,38,4,67,236,255>>, <<91,9,141,90,162,229,244,255>>,
       <<187,218,150,220,180,16,251,255>>, <<107,146,84,116,44,196,254,255>>    >>

\* sin_exact: the table entry at a u8 index.
sin_exact(repr) == CURVE[repr + 1]

(***************************************************************************)
(* src/src/trig.rs                                                         *)
(***************************************************************************)
\* bitarr!(u64, Msb0; 1, 0, 0, 0).load() and bitarr!(u64, Msb0; 0, 1, 0, 0).load()
HALF == <<0, 0, 0, 0, 0, 0, 0, 128>>
QUARTER == <<0, 0, 0, 0, 0, 0, 0, 64>>

\* Output
One == [tag |-> "One", repr |-> ZeroWord]
Fraction(repr) == [tag |-> "Fraction", repr |-> repr]

\* `zone as u8` and `(0x100u16 - zone) as u8`
quarter_sin_sin_index(zone) == zone % 2^8
quarter_sin_cos_index(zone) == (256 - zone) % 2^8

\* quarter_sin, with its locals: the table indices it reads and the value it
\* returns.
quarter_sin(repr) ==
    LET zone == ToInt(Msb0Load(repr, 2, 10))
        epsilon == new(Msb0Load(repr, 10, WordBits))
        epsilon_radians == mul0(TAU_OFFSET, TAU, epsilon)
        sin_a == sin_exact(quarter_sin_sin_index(zone))
        cos_a == sin_exact(quarter_sin_cos_index(zone))
        b_cos_a == mul(cos_a, epsilon_radians)
    IN  [ zone            |-> zone,
          epsilon         |-> epsilon,
          epsilon_radians |-> epsilon_radians,
          reads           |-> IF zone = 0 THEN {}
                              ELSE { quarter_sin_sin_index(zone),
                                     quarter_sin_cos_index(zone) },
          value           |-> IF zone = 0 THEN epsilon_radians
                              ELSE saturating_add(sin_a, b_cos_a) ]

\* The locals of a half_sin that does not call quarter_sin.
NoQuarterSin ==
    [ zone |-> 0, epsilon |-> ZeroWord, epsilon_radians |-> ZeroWord,
      reads |-> {}, value |-> ZeroWord ]

\* A reflection with its operands exchanged.
half_sin_reflect_swapped(half, repr) == u64_sub(repr, half)

\* No reflection: the angle passes unchanged.
half_sin_reflect_none(half, repr) == [overflow |-> FALSE, value |-> repr]

\* `half - repr`: the subtraction that reflects an angle above the quarter
\* turn.
half_sin_reflect(half, repr) == u64_sub(half, repr)

\* A comparison that sends the quarter turn itself down the Less arm.
half_sin_ordering_no_equal(repr, quarter) ==
    IF Less(repr, quarter) \/ repr = quarter THEN "Less" ELSE "Greater"

\* Ord::cmp(&repr, &quarter)
half_sin_ordering(repr, quarter) ==
    IF Less(repr, quarter) THEN "Less"
    ELSE IF repr = quarter THEN "Equal" ELSE "Greater"

\* half_sin, with its locals: whether quarter_sin is called and on what, and
\* whether the reflection underflowed.
half_sin(repr0) ==
    LET repr == Msb0Load(repr0, 1, WordBits)
        half == HALF
        quarter == QUARTER
        reflected == half_sin_reflect(half, repr)
        ordering == half_sin_ordering(repr, quarter)
        arg == IF ordering = "Less" THEN repr ELSE reflected.value
        q == IF ordering = "Equal" THEN NoQuarterSin ELSE quarter_sin(arg)
    IN  [ ordering  |-> ordering,
          called    |-> ordering # "Equal",
          arg       |-> IF ordering = "Equal" THEN ZeroWord ELSE arg,
          underflow |-> ordering = "Greater" /\ reflected.overflow,
          quarter   |-> q,
          value     |-> IF ordering = "Equal" THEN One ELSE Fraction(q.value) ]

\* sin: the SignedOutput, with the locals of its half_sin.
trig_sin(repr) ==
    LET sign == IF Msb0(repr, 0) = 0 THEN "Positive" ELSE "Negative"
        h == half_sin(repr)
    IN  [ repr |-> repr, sign |-> sign, value |-> h.value, half |-> h ]

\* 1.0_f64
FloatOne == FloatOf(0, FLOAT_ZERO_EXP, ZeroWord)

\* SignedOutput::as_float
SignedOutput_as_float(self) ==
    LET unsigned == IF self.value.tag = "One" THEN FloatOne
                    ELSE as_float(0, self.value.repr)
    IN  IF self.sign = "Positive" THEN unsigned ELSE FloatNeg(unsigned)

(***************************************************************************)
(* src/src/trig.rs over a given table: the same code, with the static      *)
(* CURVE it reads made a parameter.                                        *)
(***************************************************************************)
\* sin_exact
sin_exact_in(table, repr) == table[repr + 1]

\* quarter_sin
quarter_sin_in(table, repr) ==
    LET zone == ToInt(Msb0Load(repr, 2, 10))
        epsilon == new(Msb0Load(repr, 10, WordBits))
        epsilon_radians == mul0(TAU_OFFSET, TAU, epsilon)
        sin_a == sin_exact_in(table, quarter_sin_sin_index(zone))
        cos_a == sin_exact_in(table, quarter_sin_cos_index(zone))
        b_cos_a == mul(cos_a, epsilon_radians)
    IN  [ zone            |-> zone,
          epsilon         |-> epsilon,
          epsilon_radians |-> epsilon_radians,
          reads           |-> IF zone = 0 THEN {}
                              ELSE { quarter_sin_sin_index(zone),
                                     quarter_sin_cos_index(zone) },
          value           |-> IF zone = 0 THEN epsilon_radians
                              ELSE saturating_add(sin_a, b_cos_a) ]

\* half_sin
half_sin_in(table, repr0) ==
    LET repr == Msb0Load(repr0, 1, WordBits)
        half == HALF
        quarter == QUARTER
        reflected == half_sin_reflect(half, repr)
        ordering == half_sin_ordering(repr, quarter)
        arg == IF ordering = "Less" THEN repr ELSE reflected.value
        q == IF ordering = "Equal" THEN NoQuarterSin
             ELSE quarter_sin_in(table, arg)
    IN  [ ordering  |-> ordering,
          called    |-> ordering # "Equal",
          arg       |-> IF ordering = "Equal" THEN ZeroWord ELSE arg,
          underflow |-> ordering = "Greater" /\ reflected.overflow,
          quarter   |-> q,
          value     |-> IF ordering = "Equal" THEN One ELSE Fraction(q.value) ]

\* sin
trig_sin_in(table, repr) ==
    LET sign == IF Msb0(repr, 0) = 0 THEN "Positive" ELSE "Negative"
        h == half_sin_in(table, repr)
    IN  [ repr |-> repr, sign |-> sign, value |-> h.value, half |-> h ]

(***************************************************************************)
(* src/src/angle.rs: an Angle is the tuple struct Angle(Repr).             *)
(***************************************************************************)
\* A construction that normalises the pattern to the half turn.
from_repr_normalised(repr) == <<new(Mask(repr, WordBits - 1))>>

\* Angle::from_repr
from_repr(repr) == <<new(repr)>>

\* Angle::from_rotations: Repr::from_float(rotations).map(Self)
from_rotations(rotations, overflow_checks) ==
    from_float(0, rotations, overflow_checks)

\* Angle::repr
repr(self) == self[1]

\* Angle::as_rotations
as_rotations(self) == as_float(0, self[1])

\* Angle::as_radians
as_radians(self) == as_float(TAU_OFFSET, mul(TAU, self[1]))

\* Angle::as_degrees
as_degrees(self) == as_float(DEGREES_OFFSET, mul(DEGREES, self[1]))

\* A cosine whose quarter-turn offset clamps instead of wrapping.
Angle_cos_eval_saturating(self) ==
    trig_sin(saturating_add(repr(self), QUARTER))

\* The trig::sin call of Angle::sin and of Angle::cos.
Angle_sin_eval(self) == trig_sin(repr(self))
Angle_cos_eval(self) == trig_sin(wrapping_add(repr(self), QUARTER))

\* Angle::sin and Angle::cos
Angle_sin(self) == SignedOutput_as_float(Angle_sin_eval(self))
Angle_cos(self) == SignedOutput_as_float(Angle_cos_eval(self))

\* The same calls over a given table.
Angle_sin_eval_in(table, self) == trig_sin_in(table, repr(self))
Angle_cos_eval_in(table, self) ==
    trig_sin_in(table, wrapping_add(repr(self), QUARTER))

(***************************************************************************)
(* The checked inputs.                                                     *)
(***************************************************************************)
\* The patterns of `width` bits with pre free leading bits, suf free
\* trailing bits and one repeated bit between.
PatternsOf(width, pre, suf) ==
    { LET middle == IF fill = 1 THEN Mask(MaxWord, width - pre) ELSE ZeroWord
          low == SubSeq(AddDigits(Shl(Shr(middle, suf), suf), FromInt(s), 1, 0), 1, 8)
          high == Shl(FromInt(p), width - pre)
      IN  SubSeq(AddDigits(high, low, 1, 0), 1, 8) :
        p \in 0..(2^pre - 1), fill \in {0, 1}, s \in 0..(2^suf - 1) }

AnglePatterns == PatternsOf(WordBits, PrefixLen, SuffixLen)
Mantissas == PatternsOf(MantissaBits, MantPrefixLen, MantSuffixLen)

\* BaseRepr<O> is used at O = 0 (Repr), 1 and 2 (its tests), 3 (TAU) and
\* 9 (DEGREES).
Offsets == {0, 1, 2, TAU_OFFSET, DEGREES_OFFSET}

Exponents ==
    {0, 1, 2^ExponentBits - 2, 2^ExponentBits - 1}
    \cup { FLOAT_ZERO_EXP + d : d \in (-NearExp)..NearExp }
    \cup { FLOAT_ZERO_EXP + s - 12 + d :
             s \in {-WordBits, WordBits}, d \in (-EdgeExp)..EdgeExp }

Floats ==
    { FloatOf(s, e, m) : s \in {0, 1}, e \in Exponents, m \in Mantissas }

\* A table of 256 entries holding lower below index 128 and upper from it on:
\* a zone below 128 reads lower as sin(A) and upper as cos(A), a zone above
\* 128 reads them the other way round, so every pair of entries is read.
TableOf(lower, upper) ==
    [ i \in 1..256 |-> IF i <= 128 THEN lower ELSE upper ]

TableEntries == PatternsOf(WordBits, TablePrefixLen, 0)

\* The checked tables: the sine table itself and the two-valued ones.
Tables ==
    {CURVE} \cup { TableOf(a, b) : a \in TableEntries, b \in TableEntries }

(***************************************************************************)
(* The state: one construction, then one method call on what it built.     *)
(***************************************************************************)
VARIABLES
    overflow_checks,  \* the build profile: TRUE panics on arithmetic overflow
    pc,               \* "start", "built" (an Angle exists), "done"
    angle,            \* the Angle built, <<>> when there is none
    ctor,             \* the call that built it
    call,             \* the last call: its function, offset O and argument
    ret,              \* what the last call returned
    eval              \* the SignedOutput of the last sin or cos, with locals

vars == <<overflow_checks, pc, angle, ctor, call, ret, eval>>

NoEval == [repr |-> ZeroWord, sign |-> "Positive", value |-> Fraction(ZeroWord),
           half |-> [ordering |-> "Less", called |-> FALSE, arg |-> ZeroWord,
                     underflow |-> FALSE, quarter |-> NoQuarterSin,
                     value |-> Fraction(ZeroWord)]]

Call(fn, O, arg) == [fn |-> fn, O |-> O, arg |-> arg]
Float(bits) == [tag |-> "f64", bits |-> bits]
Bits(bits) == [tag |-> "u64", bits |-> bits]

Init ==
    /\ overflow_checks \in BOOLEAN
    /\ pc = "start"
    /\ angle = <<>>
    /\ ctor = Call("none", 0, ZeroWord)
    /\ call = Call("none", 0, ZeroWord)
    /\ ret = None
    /\ eval = NoEval

\* Angle::from_repr(p)
FromRepr(p) ==
    /\ pc = "start"
    /\ angle' = from_repr(p)
    /\ call' = Call("from_repr", 0, p)
    /\ ctor' = call'
    /\ ret' = Bits(p)
    /\ pc' = "built"
    /\ UNCHANGED <<overflow_checks, eval>>

\* Angle::from_rotations(v)
FromRotations(v) ==
    /\ pc = "start"
    /\ LET r == from_rotations(v, overflow_checks)
       IN  /\ ret' = r
           /\ angle' = IF r.tag = "Some" THEN <<r.bits>> ELSE <<>>
           /\ pc' = IF r.tag = "Some" THEN "built" ELSE "done"
    /\ call' = Call("from_rotations", 0, v)
    /\ ctor' = call'
    /\ UNCHANGED <<overflow_checks, eval>>

\* BaseRepr::<O>::from_float(v)
ReprFromFloat(O, v) ==
    /\ pc = "start"
    /\ ret' = from_float(O, v, overflow_checks)
    /\ call' = Call("from_float", O, v)
    /\ pc' = "done"
    /\ UNCHANGED <<overflow_checks, angle, ctor, eval>>

\* BaseRepr::<O>::new(b).as_float()
ReprAsFloat(O, b) ==
    /\ pc = "start"
    /\ ret' = Float(as_float(O, new(b)))
    /\ call' = Call("as_float", O, b)
    /\ pc' = "done"
    /\ UNCHANGED <<overflow_checks, angle, ctor, eval>>

\* A method of the Angle that returns without evaluating a sine.
Method(fn, result) ==
    /\ pc = "built"
    /\ ret' = result
    /\ call' = Call(fn, 0, repr(angle))
    /\ pc' = "done"
    /\ UNCHANGED <<overflow_checks, angle, ctor, eval>>

GetRepr == Method("repr", Bits(repr(angle)))
AsRotations == Method("as_rotations", Float(as_rotations(angle)))
AsRadians == Method("as_radians", Float(as_radians(angle)))
AsDegrees == Method("as_degrees", Float(as_degrees(angle)))

\* Angle::sin and Angle::cos: a reflection that underflows panics in a build
\* with overflow checks.
Trig(fn, e) ==
    /\ pc = "built"
    /\ eval' = e
    /\ ret' = IF e.half.underflow /\ overflow_checks THEN Panic
              ELSE Float(SignedOutput_as_float(e))
    /\ call' = Call(fn, 0, repr(angle))
    /\ pc' = "done"
    /\ UNCHANGED <<overflow_checks, angle, ctor>>

Sin == Trig("sin", Angle_sin_eval(angle))
Cos == Trig("cos", Angle_cos_eval(angle))

\* The constructions start a run; the methods need the Angle it built.
Next ==
    \/ pc = "start" /\ \E p \in AnglePatterns : FromRepr(p)
    \/ pc = "start" /\ \E v \in Floats : FromRotations(v)
    \/ pc = "start" /\ \E O \in Offsets, v \in Floats : ReprFromFloat(O, v)
    \/ pc = "start" /\ \E O \in Offsets, b \in AnglePatterns : ReprAsFloat(O, b)
    \/ GetRepr
    \/ AsRotations
    \/ AsRadians
    \/ AsDegrees
    \/ Sin
    \/ Cos

Spec == Init /\ [][Next]_vars

(***************************************************************************)
(* The same construction and calls in a build whose table is any table.    *)
(* The table is a static of the build and a run makes one call, so the     *)
(* build is chosen where the call reads it.                                *)
(***************************************************************************)
\* Angle::sin and Angle::cos over the table of the build.
TrigIn(fn, table, e) ==
    /\ pc = "built"
    /\ eval' = e
    /\ ret' = IF e.half.underflow /\ overflow_checks THEN Panic
              ELSE Float(SignedOutput_as_float(e))
    /\ call' = [fn |-> fn, O |-> 0, arg |-> repr(angle), table |-> table]
    /\ pc' = "done"
    /\ UNCHANGED <<overflow_checks, angle, ctor>>

SinIn(table) == TrigIn("sin", table, Angle_sin_eval_in(table, angle))
CosIn(table) == TrigIn("cos", table, Angle_cos_eval_in(table, angle))

NextAnyTable ==
    \/ pc = "start" /\ \E p \in AnglePatterns : FromRepr(p)
    \/ pc = "built" /\ \E table \in Tables : SinIn(table)
    \/ pc = "built" /\ \E table \in Tables : CosIn(table)

SpecAnyTable == Init /\ [][NextAnyTable]_vars

(***************************************************************************)
(* f64 values the claims name, as bit patterns.                            *)
(***************************************************************************)
\* 0x3FE0000000000000, 0x3FF0000000000000, 0xBFF0000000000000
F64_HALF == <<0, 0, 0, 0, 0, 0, 224, 63>>
F64_ONE == <<0, 0, 0, 0, 0, 0, 240, 63>>
F64_MINUS_ONE == <<0, 0, 0, 0, 0, 0, 240, 191>>
\* 180.0 is 0x4066800000000000, core::f64::consts::PI is 0x400921FB54442D18
F64_180 == <<0, 0, 0, 0, 0, 128, 102, 64>>
F64_PI == <<24, 45, 68, 84, 251, 33, 9, 64>>
\* The three-quarter turn 0xC000000000000000.
THREE_QUARTERS == <<0, 0, 0, 0, 0, 0, 0, 192>>

(***************************************************************************)
(* C1.  from_float wraps modularly.                                        *)
(***************************************************************************)
\* |x| * 2^(64-O), its fraction dropped, modulo 2^64, for a normal x: the
\* 53-bit significand moved by exponent + 12 - O places, whatever the
\* distance; negated modulo 2^64 for a negative x.
ModularFixed(O, x) ==
    LET significand == SubSeq(AddDigits(Mask(x, MantissaBits),
                                        Shl(FromInt(1), MantissaBits), 1, 0), 1, 8)
        places == (raw_exponent(x) - 1023) + 12 - O
        magnitude == IF places >= 0 THEN Shl(significand, places)
                     ELSE Shr(significand, -places)
    IN  IF sign_bit(x) = 0 THEN magnitude
        ELSE SubSeq(SubDigits(ZeroWord, magnitude, 1, 0), 1, 8)

\* C1: for every normal finite double x and every offset O,
\* BaseRepr<O>::from_float(x) returns a present value whose bits are
\* x * 2^(64-O) truncated and reduced modulo 2^64 (two's complement for a
\* negative x), for every exponent, the shift distances at or beyond 64 and
\* -64 included.
C1_ModularWrapEveryExponent ==
    (call.fn = "from_float" /\ classify(call.arg) = "Normal")
        => ret = Some(ModularFixed(call.O, call.arg))

(***************************************************************************)
(* C2.  from_float fails only by returning None.                           *)
(***************************************************************************)
\* C2: from_float and Angle::from_rotations never crash; they return None
\* exactly for a NaN, an infinite or a subnormal input, Some(0) for +0.0 and
\* -0.0, and a present value for every normal input.
C2_AbsentNeverCrash ==
    call.fn \in {"from_float", "from_rotations"}
        => /\ ret.tag \in {"Some", "None"}
           /\ ret.tag = "None"
                <=> classify(call.arg) \in {"Nan", "Infinite", "Subnormal"}
           /\ classify(call.arg) = "Zero" => ret = Some(ZeroWord)

(***************************************************************************)
(* C3.  as_float keeps the leading bit and the 52 bits after it.           *)
(***************************************************************************)
\* The double b * 2^(O-64) with its significand cut to the leading one bit
\* and the next 52 bits; 0.0 for b = 0.
TruncatedDouble(O, b) ==
    LET len == BitLen(b)
        normalised == Shl(b, WordBits - len)
    IN  IF b = ZeroWord THEN ZeroWord
        ELSE FloatOf(0, 1023 + (len - 1) + (O - WordBits),
                     Mask(Shr(normalised, WordBits - 1 - MantissaBits),
                          MantissaBits))

\* C3: for every pattern b and offset O, BaseRepr<O>(b).as_float() is
\* b * 2^(O-64) truncated to 53 significant bits, so it is exact when b has
\* at most 53 significant bits, patterns with more than 11 leading zero bits
\* included.
C3_AsFloatTruncatesTo53Bits ==
    /\ call.fn = "as_float" => ret = Float(TruncatedDouble(call.O, call.arg))
    /\ call.fn = "as_rotations" => ret = Float(TruncatedDouble(0, call.arg))

(***************************************************************************)
(* C4.  Symmetry of sin and cos.                                           *)
(***************************************************************************)
\* x + 2^63 and x + 2^62 modulo 2^64: only the top bit, or the top two
\* bits, of the pattern change.
AddHalfTurn(x) == [x EXCEPT ![8] = (x[8] + 128) % 256]
AddQuarterTurn(x) == [x EXCEPT ![8] = (x[8] + 64) % 256]

\* C4: sin(x + 2^63 mod 2^64) == -sin(x), the magnitude of sin(x) depends
\* only on the low 63 bits of x and its sign only on the top bit, and
\* cos(x) == sin(x + 2^62 mod 2^64).
C4_Symmetry ==
    /\ call.fn = "sin" =>
         /\ ret.tag = "f64"
         /\ FloatEq(Angle_sin(<<AddHalfTurn(call.arg)>>), FloatNeg(ret.bits))
         /\ eval.value = trig_sin(Mask(call.arg, WordBits - 1)).value
         /\ eval.sign = IF BitAt(call.arg, WordBits - 1) = 1
                        THEN "Negative" ELSE "Positive"
    /\ call.fn = "cos" =>
         /\ ret.tag = "f64"
         /\ FloatEq(ret.bits, Angle_sin(<<AddQuarterTurn(call.arg)>>))

\* cos at three quarters of a turn has crossed the boundary: it is sin(0).
C4_Witness ==
    /\ call.fn = "cos"
    /\ call.arg = THREE_QUARTERS
    /\ eval.repr = ZeroWord
    /\ ret = Float(ZeroWord)

(***************************************************************************)
(* C5.  Fixed values.                                                      *)
(***************************************************************************)
\* C5: sin(0) is 0.0; sin at the quarter turn is exactly 1.0 through
\* Output::One, with no table read; cos(0) is exactly 1.0; sin at three
\* quarters of a turn is exactly -1.0.
C5_FixedValues ==
    /\ (call.fn = "sin" /\ call.arg = ZeroWord) => ret = Float(ZeroWord)
    /\ (call.fn = "sin" /\ call.arg = QUARTER) =>
         /\ ret = Float(F64_ONE)
         /\ eval.value = One
         /\ ~eval.half.called
         /\ eval.half.quarter.reads = {}
    /\ (call.fn = "cos" /\ call.arg = ZeroWord) => ret = Float(F64_ONE)
    /\ (call.fn = "sin" /\ call.arg = THREE_QUARTERS) =>
         ret = Float(F64_MINUS_ONE)

\* sin at the quarter turn has returned 1.0.
C5_Witness ==
    /\ call.fn = "sin"
    /\ call.arg = QUARTER
    /\ ret = Float(F64_ONE)

(***************************************************************************)
(* C6.  Unit conversion by constant multiply.                              *)
(***************************************************************************)
\* C6: as_radians and as_degrees are the float, read at the constant's
\* offset, of floor(constant * fraction / 2^64), the product taken in 128
\* bits without overflow; at the half rotation as_rotations is 0.5,
\* as_degrees is 180.0 and as_radians is PI.
C6_ConstantMultiply ==
    /\ call.fn = "as_radians" =>
         /\ ~u128_mul(TAU, call.arg).overflow
         /\ ret = Float(as_float(3, High64(u128_mul(TAU, call.arg).value)))
    /\ call.fn = "as_degrees" =>
         /\ ~u128_mul(DEGREES, call.arg).overflow
         /\ ret = Float(as_float(9, High64(u128_mul(DEGREES, call.arg).value)))
    /\ (call.fn = "as_rotations" /\ call.arg = HALF) => ret = Float(F64_HALF)
    /\ (call.fn = "as_degrees" /\ call.arg = HALF) => ret = Float(F64_180)
    /\ (call.fn = "as_radians" /\ call.arg = HALF) => ret = Float(F64_PI)

\* as_radians of the half rotation has returned PI.
C6_Witness ==
    /\ call.fn = "as_radians"
    /\ call.arg = HALF
    /\ ret = Float(F64_PI)

(***************************************************************************)
(* C7.  sin and cos are total.                                             *)
(***************************************************************************)
\* C7: every sin and cos returns a float and hits no arithmetic fault: the
\* reflection does not underflow, the table indices read are within 1..255,
\* the products TAU * epsilon and cos(A) * b do not overflow the u128 and
\* fit a u64 after their shift, and the float is reassembled with an
\* exponent field within 1..2046.
C7_Total ==
    call.fn \in {"sin", "cos"} =>
        LET h == eval.half
            q == h.quarter
            tau_epsilon == u128_mul(TAU, q.epsilon)
            cos_b == u128_mul(sin_exact(quarter_sin_cos_index(q.zone)),
                              q.epsilon_radians)
        IN  /\ ret.tag = "f64"
            /\ ~h.underflow
            /\ q.reads \subseteq 1..255
            /\ h.called =>
                 /\ ~tau_epsilon.overflow
                 /\ High64(WideShr(tau_epsilon.value, WordBits - 3)) = ZeroWord
            /\ (h.called /\ q.zone # 0) =>
                 /\ ~cos_b.overflow
                 /\ High64(WideShr(cos_b.value, WordBits)) = ZeroWord
            /\ (eval.value.tag = "Fraction" /\ eval.value.repr # ZeroWord) =>
                 as_float_biased_exponent(0, eval.value.repr) \in 1..2046

\* A sine of a reflected angle that read the table has returned.
C7_Witness ==
    /\ call.fn = "sin"
    /\ eval.half.ordering = "Greater"
    /\ eval.half.quarter.reads # {}
    /\ ret.tag = "f64"

(***************************************************************************)
(* C8.  The raw round trip.                                                *)
(***************************************************************************)
\* C8: Angle::from_repr(p).repr() == p; the construction keeps the pattern
\* as it is, and two angles are equal exactly when their patterns are.
C8_RawRoundTrip ==
    ctor.fn = "from_repr" =>
        /\ pc \in {"built", "done"} => angle = <<ctor.arg>>
        /\ call.fn = "repr" => ret = Bits(ctor.arg)
        /\ \A p \in AnglePatterns : (from_repr(p) = angle) <=> (p = ctor.arg)

\* repr() has returned the all-ones pattern from_repr was given.
C8_Witness ==
    /\ ctor.fn = "from_repr"
    /\ ctor.arg = MaxWord
    /\ call.fn = "repr"
    /\ ret = Bits(MaxWord)

(***************************************************************************)
(* C9.  The half-turn reflection.                                          *)
(***************************************************************************)
\* C9: with r the low 63 bits of the pattern, quarter_sin is called on r
\* when r < 2^62 and on 2^63 - r when r > 2^62, and r = 2^62 gives One; the
\* value passed to quarter_sin is below 2^62; and for r within (0, 2^63)
\* the magnitudes of sin(r) and sin(2^63 - r) are the same.
C9_Reflection ==
    call.fn \in {"sin", "cos"} =>
        LET r == Mask(eval.repr, WordBits - 1)
            mirrored == SubSeq(SubDigits(HALF, r, 1, 0), 1, 8)
            h == eval.half
        IN  /\ Less(r, QUARTER) => (h.called /\ h.arg = r)
            /\ r = QUARTER => (~h.called /\ eval.value = One)
            /\ Less(QUARTER, r) => (h.called /\ h.arg = mirrored)
            /\ h.called => Less(h.arg, QUARTER)
            /\ r # ZeroWord => trig_sin(mirrored).value = eval.value

\* A sine of an angle above the quarter turn has been evaluated on its
\* mirror image.
C9_Witness ==
    /\ call.fn = "sin"
    /\ Less(QUARTER, Mask(eval.repr, WordBits - 1))
    /\ eval.half.called
    /\ eval.half.arg # ZeroWord
    /\ Less(eval.half.arg, QUARTER)

(***************************************************************************)
(* C10.  Table lookup plus linear correction.                              *)
(***************************************************************************)
\* C10: for a quarter-range input with zone z (bits 2..10 from the top) and
\* epsilon e (the low 54 bits), b = floor(TAU * e / 2^61); the result is b,
\* with no table read, when z = 0, and otherwise
\* min(2^64 - 1, CURVE[z] + floor(CURVE[256 - z] * b / 2^64)).
C10_LookupAndCorrection ==
    (call.fn \in {"sin", "cos"} /\ eval.half.called
                                /\ Less(eval.half.arg, QUARTER)) =>
        LET a == eval.half.arg
            q == eval.half.quarter
            z == ToInt(Mask(Shr(a, 54), 8))
            e == Mask(a, 54)
            b_wide == WideShr(SubSeq(MulDigits(TAU, e), 1, 16), 61)
            b == Low64(b_wide)
            correction == High64(SubSeq(MulDigits(CURVE[256 - z + 1], b), 1, 16))
            sum == AddDigits(CURVE[z + 1], correction, 1, 0)
        IN  /\ High64(b_wide) = ZeroWord
            /\ z = 0 => (q.value = b /\ q.reads = {})
            /\ z # 0 =>
                 /\ q.reads = {z, 256 - z}
                 /\ q.value = IF sum[9] # 0 THEN MaxWord ELSE SubSeq(sum, 1, 8)

\* In the last zone the corrected sum has been clamped to 2^64 - 1.
C10_Witness ==
    /\ call.fn = "sin"
    /\ eval.half.called
    /\ eval.half.quarter.zone = 255
    /\ eval.half.quarter.value = MaxWord

(***************************************************************************)
(* C11.  Range of the result, for any table.                               *)
(***************************************************************************)
\* The largest double below 1.0: 0x3FEFFFFFFFFFFFFF.
F64_BELOW_ONE == <<255, 255, 255, 255, 255, 255, 239, 63>>

====
